---- MODULE Spec2Model ----
(***************************************************************************)
(* Model of rankeval/metrics/rmse.py: the RMSE metric, a metric composed   *)
(* from an inner MSE metric.  RMSE.__init__, RMSE.eval,                    *)
(* RMSE.eval_per_query and RMSE.__str__ are translated from rmse.py.  The  *)
(* Metric base class and the MSE metric (rankeval.metrics) are modelled    *)
(* from the specification, since rmse.py only imports them.                *)
(*                                                                         *)
(* Real numbers are fixed-point integers with Digits decimal digits        *)
(* (1.0 is Scale); NaN is a value of its own.                              *)
(***************************************************************************)
EXTENDS Integers, Sequences, FiniteSets, TLC

\* ------------------------------------------------------------------ bounds
MaxLen == 3
MaxDocs == 2
MaxQueries == 2
MaxCutoff == 2
MaxDerive == 1
MaxDepth == 3
Digits == 3

Scale == 10 ^ Digits

\* ------------------------------------------------------------------ values
None == <<>>
Some(k) == <<k>>

NaN == [nan |-> TRUE, v |-> 0]
Num(x) == [nan |-> FALSE, v |-> x]

Raise(e) == [err |-> e, val |-> NaN]
Ok(x) == [err |-> "", val |-> x]

Labels == {0, 1}
Preds == {0, 1}

RECURSIVE SeqsUpTo(_, _)
SeqsUpTo(S, n) ==
    IF n = 0 THEN {<<>>}
    ELSE LET shorter == SeqsUpTo(S, n - 1)
         IN  shorter \cup {Append(s, x) : s \in {r \in shorter : Len(r) = n - 1}, x \in S}

Min(a, b) == IF a <= b THEN a ELSE b

RECURSIVE SumSeq(_)
SumSeq(s) == IF s = <<>> THEN 0 ELSE Head(s) + SumSeq(Tail(s))

\* floor of the square root, by bisection on lo..hi (lo*lo <= n < (hi+1)^2)
RECURSIVE Bisect(_, _, _)
Bisect(n, lo, hi) ==
    IF lo = hi THEN lo
    ELSE LET mid == (lo + hi + 1) \div 2
         IN  IF mid * mid <= n THEN Bisect(n, mid, hi) ELSE Bisect(n, lo, mid - 1)

ISqrt(n) == Bisect(n, 0, Min(n, 46340))

\* ------------------------------------------------------- Metric base, MSE
\* Metric.__init__(name): stores the name
Metric_init(slf, name) == [cls |-> slf.cls, name |-> name]

\* MSE(cutoff=cutoff): a cutoff <= 0 is rejected at construction
MSE_new(cutoff) ==
    IF cutoff # None /\ cutoff[1] <= 0
    THEN Raise("InvalidConfiguration")
    ELSE [err |-> "", val |-> [name |-> <<"M", "S", "E">>, cutoff |-> cutoff]]

\* index of the highest predicted score among idx, the lowest index on a tie
Best(y_pred, idx) ==
    CHOOSE i \in idx :
        \A j \in idx : y_pred[i] > y_pred[j] \/ (y_pred[i] = y_pred[j] /\ i <= j)

\* the k documents with the highest predicted scores, descending
RECURSIVE TopK(_, _, _)
TopK(y_pred, idx, k) ==
    IF k = 0 \/ idx = {} THEN <<>>
    ELSE LET b == Best(y_pred, idx)
         IN  <<b>> \o TopK(y_pred, idx \ {b}, k - 1)

\* mean of the squared differences over the documents idx (a sequence of indices)
MeanSqErr(y, y_pred, idx) ==
    IF idx = <<>> THEN NaN
    ELSE Num((SumSeq([j \in 1..Len(idx) |->
                 (y[idx[j]] - y_pred[idx[j]]) * (y[idx[j]] - y_pred[idx[j]])]) * Scale)
             \div Len(idx))

\* MSE.eval_per_query(y, y_pred)
MSE_eval_per_query(mse, y, y_pred) ==
    IF Len(y) # Len(y_pred) THEN Raise("ShapeMismatch")
    ELSE LET n == Len(y)
             idx == IF mse.cutoff = None
                    THEN [j \in 1..n |-> j]
                    ELSE TopK(y_pred, 1..n, mse.cutoff[1])
         IN  Ok(MeanSqErr(y, y_pred, idx))

\* ------------------------------------------------------------------- RMSE
\* np.sqrt: NaN stays NaN
np_sqrt(x) == IF x.nan THEN NaN ELSE Num(ISqrt(x.v * Scale))

\* variants of RMSE.eval_per_query with a slip: the root left out; NaN turned into
\* 0; the vectors cut to the first k documents before the inner call; the vectors
\* cut to their common length
RMSE_eval_per_query_noroot(slf, y, y_pred) == MSE_eval_per_query(slf.mse, y, y_pred)

RMSE_eval_per_query_nan0(slf, y, y_pred) ==
    LET mse == MSE_eval_per_query(slf.mse, y, y_pred)
    IN  IF mse.err # "" THEN mse
        ELSE IF mse.val.nan THEN Ok(Num(0)) ELSE Ok(np_sqrt(mse.val))

RMSE_eval_per_query_firstk(slf, y, y_pred) ==
    LET k == IF slf.cutoff = None THEN Len(y) ELSE slf.cutoff[1]
        mse == MSE_eval_per_query(slf.mse, SubSeq(y, 1, Min(k, Len(y))),
                                  SubSeq(y_pred, 1, Min(k, Len(y_pred))))
    IN  IF Len(y) # Len(y_pred) THEN Raise("ShapeMismatch")
        ELSE IF mse.err # "" THEN mse ELSE Ok(np_sqrt(mse.val))

RMSE_eval_per_query_trunc(slf, y, y_pred) ==
    LET n == Min(Len(y), Len(y_pred))
        mse == MSE_eval_per_query(slf.mse, SubSeq(y, 1, n), SubSeq(y_pred, 1, n))
    IN  IF mse.err # "" THEN mse ELSE Ok(np_sqrt(mse.val))

\* RMSE.eval_per_query, lines 56-57; an exception of the inner call propagates
RMSE_eval_per_query(slf, y, y_pred) ==
    LET mse == MSE_eval_per_query(slf.mse, y, y_pred)
    IN  IF mse.err # "" THEN mse ELSE Ok(np_sqrt(mse.val))

\* digits of a non-negative integer, most significant first
DigitChars == <<"0", "1", "2", "3", "4", "5", "6", "7", "8", "9">>

RECURSIVE Decimal(_)
Decimal(n) ==
    IF n < 10 THEN <<DigitChars[n + 1]>>
    ELSE Decimal(n \div 10) \o <<DigitChars[(n % 10) + 1]>>

\* "{}".format(k) for an integer k
Format(k) == IF k < 0 THEN <<"-">> \o Decimal(0 - k) ELSE Decimal(k)

\* variant of RMSE.__str__ that appends the cutoff even when it is None
RMSE_str_always(slf) ==
    slf.name \o <<"@">> \o (IF slf.cutoff = None THEN <<"N", "o", "n", "e">>
                           ELSE Format(slf.cutoff[1]))

\* RMSE.__str__, lines 60-63
RMSE_str(slf) ==
    IF slf.cutoff # None
    THEN slf.name \o <<"@">> \o Format(slf.cutoff[1])
    ELSE slf.name

\* ---------------------------------------------------------- class lookup
\* classes: RMSE, the classes derived from it (1 derives from RMSE, 2 from 1, ...;
\* none overrides __init__ or eval), and the Metric base
RMSE == 0
MetricCls == -1
Classes == 0..MaxDerive

\* method resolution order of cls: cls, cls - 1, ..., RMSE, Metric
MRO(cls) == [j \in 1..(cls + 2) |-> cls - j + 1]

\* classes that define __init__ and eval themselves
Defines(c) == c \in {RMSE, MetricCls}

\* super(start, obj).method for an obj of class cls: the first class after start in
\* cls's MRO that defines the method
SuperLookup(start, cls) ==
    LET mro == MRO(cls)
        pos == CHOOSE j \in 1..Len(mro) : mro[j] = start
        nxt == CHOOSE j \in (pos + 1)..Len(mro) :
                   /\ Defines(mro[j])
                   /\ \A m \in (pos + 1)..(j - 1) : ~Defines(mro[m])
    IN  mro[nxt]

\* line 26 and line 42: super(self.__class__, self)
SuperOfSelf(slf) == SuperLookup(slf.cls, slf.cls)

\* variant of line 28 that forgets the cutoff: MSE()
RMSE_init_mse_nocutoff(cutoff) == MSE_new(None)

\* line 28: the inner base metric gets the same cutoff
RMSE_init_mse(cutoff) == MSE_new(cutoff)

\* ------------------------------------------------------------------ state
VARIABLES self, ipc, args, depth, ierr, th

vars == <<self, ipc, args, depth, ierr, th>>

Threads == {1, 2}

IdleThread ==
    [pc |-> "Idle", kind |-> "", on |-> "", y |-> <<>>, offs |-> <<>>, yp |-> <<>>,
     i |-> 0, scores |-> <<>>, visited |-> <<>>, result |-> <<>>, err |-> "",
     label |-> <<>>]

NoArgs == [cls |-> RMSE, name |-> <<>>, cutoff |-> None]

Init ==
    /\ self = [cls |-> RMSE]
    /\ ipc = "none"
    /\ args = NoArgs
    /\ depth = 0
    /\ ierr = ""
    /\ th = [t \in Threads |-> IdleThread]

\* ----------------------------------------------------------- construction
\* cls(name, cutoff): the object is allocated and RMSE.__init__ entered (line 18)
New(cls, name, cutoff) ==
    /\ ipc = "none"
    /\ self' = [cls |-> cls]
    /\ args' = [cls |-> cls, name |-> name, cutoff |-> cutoff]
    /\ ipc' = "super"
    /\ depth' = 1
    /\ UNCHANGED <<ierr, th>>

\* line 26: super(self.__class__, self).__init__(name)
InitSuper ==
    /\ ipc = "super"
    /\ IF SuperOfSelf(self) = MetricCls
       THEN /\ self' = Metric_init(self, args.name)
            /\ ipc' = "cutoff"
            /\ UNCHANGED <<depth, ierr>>
       ELSE \* RMSE.__init__ is entered again, with the same self
            IF depth < MaxDepth
            THEN /\ depth' = depth + 1
                 /\ UNCHANGED <<self, ipc, ierr>>
            ELSE /\ ipc' = "failed"
                 /\ ierr' = "RecursionError"
                 /\ depth' = 0
                 /\ UNCHANGED self
    /\ UNCHANGED <<args, th>>

\* line 27: self.cutoff = cutoff
InitCutoff ==
    /\ ipc = "cutoff"
    /\ self' = [cls |-> self.cls, name |-> self.name, cutoff |-> args.cutoff]
    /\ ipc' = "mse"
    /\ UNCHANGED <<args, depth, ierr, th>>

\* line 28: self._mse = MSE(cutoff=cutoff)
InitMse ==
    /\ ipc = "mse"
    /\ LET m == RMSE_init_mse(args.cutoff)
       IN  IF m.err # ""
           THEN /\ ipc' = "failed"
                /\ ierr' = m.err
                /\ UNCHANGED self
           ELSE /\ self' = [cls |-> self.cls, name |-> self.name,
                            cutoff |-> self.cutoff, mse |-> m.val]
                /\ ipc' = "ready"
                /\ UNCHANGED ierr
    /\ depth' = 0
    /\ UNCHANGED <<args, th>>

\* ------------------------------------------------------------- Metric.eval
\* number of query groups of a dataset with boundaries offs
NumQueries(offs) == Len(offs) - 1

\* v[s:e], documents s..e-1 counted from 0
Slice(v, s, e) == SubSeq(v, s + 1, Min(e, Len(v)))

\* Metric.eval entered: nothing done yet
Metric_eval(on, ds, y_pred) ==
    [IdleThread EXCEPT !.pc = "NotStarted", !.kind = "eval", !.on = on,
                       !.y = ds.y, !.offs = ds.offs, !.yp = y_pred, !.i = 1]

\* variant of RMSE.eval that scores the whole dataset as one query
RMSE_eval_direct(slf, ds, y_pred) ==
    LET r == RMSE_eval_per_query(slf, ds.y, y_pred)
    IN  [IdleThread EXCEPT !.pc = IF r.err = "" THEN "Done" ELSE "Failed",
                           !.kind = "eval", !.on = "self",
                           !.y = ds.y, !.offs = ds.offs, !.yp = y_pred,
                           !.result = IF r.err = "" THEN <<r.val>> ELSE <<>>,
                           !.err = r.err]

\* RMSE.eval, line 42: super(self.__class__, self).eval(dataset, y_pred)
RMSE_eval(slf, ds, y_pred) ==
    IF SuperOfSelf(slf) = MetricCls
    THEN Metric_eval("self", ds, y_pred)
    ELSE \* RMSE.eval calls itself until the interpreter's recursion limit
         [IdleThread EXCEPT !.pc = "Failed", !.kind = "eval", !.on = "self",
                            !.y = ds.y, !.offs = ds.offs, !.yp = y_pred,
                            !.err = "RecursionError"]

\* self.eval_per_query of the metric the call is on: the RMSE instance or its
\* inner MSE
PerQuery(on, y, y_pred) ==
    IF on = "self" THEN RMSE_eval_per_query(self, y, y_pred)
    ELSE MSE_eval_per_query(self.mse, y, y_pred)

\* variant of RMSE.eval_per_query that rebuilds the inner metric on each call
RMSE_eval_per_query_self_rebuild(slf) == [slf EXCEPT !.mse = MSE_new(None).val]

\* the attributes of the instance after RMSE.eval_per_query, lines 56-57: none is
\* assigned
RMSE_eval_per_query_self(slf) == slf

\* the attributes of the instance after RMSE.__str__, lines 60-63: s is a local
RMSE_str_self(slf) == slf

\* mean of the defined per-query scores; NaN when none is defined
Aggregate(scores) ==
    LET defined == SelectSeq(scores, LAMBDA x : ~x.nan)
    IN  IF defined = <<>> THEN NaN
        ELSE Num(SumSeq([j \in 1..Len(defined) |-> defined[j].v]) \div Len(defined))

\* metric.eval(dataset, y_pred) is called by thread t, on the RMSE instance or on
\* its inner MSE, with (dataset, y_pred) one of In
CallEval(t, on, In) ==
    /\ ipc = "ready"
    /\ th[t].pc = "Idle"
    /\ \E in \in In :
          th' = [th EXCEPT ![t] = IF on = "self" THEN RMSE_eval(self, in[1], in[2])
                                  ELSE Metric_eval(on, in[1], in[2])]
    /\ UNCHANGED <<self, ipc, args, depth, ierr>>

\* NotStarted: y_pred must have one score per document of the dataset
Begin(t) ==
    /\ th[t].pc = "NotStarted"
    /\ th' = [th EXCEPT ![t] =
                 IF Len(@.yp) # Len(@.y)
                 THEN [@ EXCEPT !.pc = "Failed", !.err = "ShapeMismatch"]
                 ELSE [@ EXCEPT !.pc = "IteratingQueries"]]
    /\ UNCHANGED <<self, ipc, args, depth, ierr>>

\* IteratingQueries: the next query group is scored
IterStep(t) ==
    /\ th[t].pc = "IteratingQueries"
    /\ th[t].i <= NumQueries(th[t].offs)
    /\ LET c == th[t]
           s == c.offs[c.i]
           e == c.offs[c.i + 1]
           r == PerQuery(c.on, Slice(c.y, s, e), Slice(c.yp, s, e))
       IN  /\ th' = [th EXCEPT ![t] =
                       IF s > e \/ e > Len(c.y)
                       THEN [@ EXCEPT !.pc = "Failed", !.err = "CorruptBoundaries"]
                       ELSE IF r.err # ""
                       THEN [@ EXCEPT !.pc = "Failed", !.err = r.err]
                       ELSE [@ EXCEPT !.scores = Append(@, r.val),
                                      !.visited = Append(@, c.i),
                                      !.i = @ + 1]]
           /\ self' = IF c.on = "self" /\ ~(s > e \/ e > Len(c.y))
                      THEN RMSE_eval_per_query_self(self) ELSE self
    /\ UNCHANGED <<ipc, args, depth, ierr>>

\* every group has been scored
EnterReducing(t) ==
    /\ th[t].pc = "IteratingQueries"
    /\ th[t].i > NumQueries(th[t].offs)
    /\ th' = [th EXCEPT ![t].pc = "Reducing"]
    /\ UNCHANGED <<self, ipc, args, depth, ierr>>

\* Reducing: the per-query scores are averaged
Reduce(t) ==
    /\ th[t].pc = "Reducing"
    /\ th' = [th EXCEPT ![t].pc = "Done", ![t].result = <<Aggregate(th[t].scores)>>]
    /\ UNCHANGED <<self, ipc, args, depth, ierr>>

\* rmse.eval_per_query(y, y_pred) is called by thread t, with (y, y_pred) one of In
CallEvalPerQuery(t, In) ==
    /\ ipc = "ready"
    /\ th[t].pc = "Idle"
    /\ \E in \in In :
          LET r == RMSE_eval_per_query(self, in[1], in[2])
          IN  th' = [th EXCEPT ![t] =
                        [IdleThread EXCEPT
                            !.pc = IF r.err = "" THEN "PerQueryDone" ELSE "Failed",
                            !.kind = "epq", !.on = "self",
                            !.y = in[1], !.yp = in[2],
                            !.result = IF r.err = "" THEN <<r.val>> ELSE <<>>,
                            !.err = r.err]]
    /\ self' = RMSE_eval_per_query_self(self)
    /\ UNCHANGED <<ipc, args, depth, ierr>>

\* str(rmse) is called by thread t
CallStr(t) ==
    /\ ipc = "ready"
    /\ th[t].pc = "Idle"
    /\ th' = [th EXCEPT ![t] = [IdleThread EXCEPT !.pc = "StrDone", !.kind = "str",
                                                  !.on = "self",
                                                  !.label = RMSE_str(self)]]
    /\ self' = RMSE_str_self(self)
    /\ UNCHANGED <<ipc, args, depth, ierr>>

\* the call of thread t has returned or raised; its locals are gone
Return(t) ==
    /\ th[t].pc \in {"Done", "Failed", "PerQueryDone", "StrDone"}
    /\ th' = [th EXCEPT ![t] = IdleThread]
    /\ UNCHANGED <<self, ipc, args, depth, ierr>>

\* ----------------------------------------------------------------- inputs
Names == {<<"R", "M", "S", "E">>, <<"r", "@", "2">>}

CutoffArgs == {None} \cup {Some(k) : k \in (-1)..MaxCutoff}

NonDecreasing(o) == \A j \in 1..(Len(o) - 1) : o[j] <= o[j + 1]

\* query boundaries: they start at 0 and never decrease; they may run past the
\* documents of the dataset (corrupt boundaries)
Offsets ==
    {o \in SeqsUpTo(0..MaxDocs, MaxQueries + 1) :
        Len(o) >= 1 /\ o[1] = 0 /\ NonDecreasing(o)}

Datasets == {[y |-> y, offs |-> o] : y \in SeqsUpTo(Labels, MaxDocs), o \in Offsets}

\* the worked examples of the specification: two queries A and B; the same with an
\* empty query group injected
ScenarioAB == <<[y |-> <<1, 0, 1, 0>>, offs |-> <<0, 2, 4>>], <<1, 0, 0, 1>>>>
ScenarioEmpty == <<[y |-> <<1, 0, 1, 0>>, offs |-> <<0, 2, 2, 4>>], <<1, 0, 0, 1>>>>
Scenarios == {ScenarioAB, ScenarioEmpty}

EvalInputs ==
    {<<ds, yp>> : ds \in Datasets, yp \in SeqsUpTo(Preds, MaxDocs)} \cup Scenarios

Vectors == SeqsUpTo(Labels, MaxLen)

\* inputs of the concurrent callers
ConcInputs ==
    Scenarios \cup {<<[y |-> <<1, 0>>, offs |-> <<0, 1, 2>>], <<0, 0>>>>,
                    <<[y |-> <<1, 0>>, offs |-> <<0, 2>>], <<1>>>>,
                    <<[y |-> <<1>>, offs |-> <<0, 1, 2>>], <<1>>>>}
ConcVectors == {<<<<1, 0>>, <<0, 1>>>>, <<<<1, 0, 1>>, <<0, 1, 1>>>>, <<<<1>>, <<0, 1>>>>}

\* ------------------------------------------------------- specifications
Construct == \E c \in Classes, n \in Names, k \in CutoffArgs : New(c, n, k)

Eval(T, In) == \E t \in T : CallEval(t, "self", In)
EvalMSE(T) == \E t \in T : CallEval(t, "mse", Scenarios)
EvalPerQuery(T, In) == \E t \in T : CallEvalPerQuery(t, In)
Str(T) == \E t \in T : CallStr(t)
Step(T) ==
    \E t \in T : Begin(t) \/ IterStep(t) \/ EnterReducing(t) \/ Reduce(t) \/ Return(t)

Next ==
    \/ Construct
    \/ InitSuper
    \/ InitCutoff
    \/ InitMse
    \/ Eval({1}, EvalInputs)
    \/ EvalMSE({1})
    \/ EvalPerQuery({1}, Vectors \X Vectors)
    \/ Str({1})
    \/ Step({1})

Spec == Init /\ [][Next]_vars

\* several threads use the same instance at once
NextConc ==
    \/ Construct
    \/ InitSuper
    \/ InitCutoff
    \/ InitMse
    \/ Eval(Threads, ConcInputs)
    \/ EvalPerQuery(Threads, ConcVectors)
    \/ Str(Threads)
    \/ Step(Threads)

SpecConc == Init /\ [][NextConc]_vars

\* ================================================================= claims
Ready == ipc = "ready"
ValidCutoff(c) == c = None \/ c[1] > 0

\* r is the non-negative square root of m at the resolution of the model; NaN for NaN
IsSqrtOf(r, m) ==
    IF m.nan THEN r.nan
    ELSE /\ ~r.nan
         /\ r.v >= 0
         /\ r.v * r.v <= m.v * Scale
         /\ m.v * Scale < (r.v + 1) * (r.v + 1)

\* the root of the mean squared error of the documents S of one query
RootOfMean(y, y_pred, S) ==
    IF S = {} THEN NaN
    ELSE LET sq == [j \in 1..Len(y) |->
                      IF j \in S THEN (y[j] - y_pred[j]) * (y[j] - y_pred[j]) ELSE 0]
         IN  Num(ISqrt(((SumSeq(sq) * Scale) \div Cardinality(S)) * Scale))

\* what eval returns when it runs alone on an RMSE with this cutoff: computed from
\* the inputs, group by group
RefGroup(cutoff, y, offs, y_pred, q) ==
    LET gy == Slice(y, offs[q], offs[q + 1])
        gp == Slice(y_pred, offs[q], offs[q + 1])
        m == MSE_eval_per_query([cutoff |-> cutoff], gy, gp).val
    IN  IF m.nan THEN NaN ELSE Num(ISqrt(m.v * Scale))

RefEval(cutoff, y, offs, y_pred) ==
    LET nq == NumQueries(offs)
        vals == [q \in 1..nq |-> RefGroup(cutoff, y, offs, y_pred, q)]
        D == {q \in 1..nq : ~vals[q].nan}
    IN  IF Len(y_pred) # Len(y) THEN Raise("ShapeMismatch")
        ELSE IF \E q \in 1..nq : offs[q + 1] > Len(y) THEN Raise("CorruptBoundaries")
        ELSE IF D = {} THEN Ok(NaN)
        ELSE Ok(Num(SumSeq([q \in 1..nq |-> IF q \in D THEN vals[q].v ELSE 0])
                    \div Cardinality(D)))

\* C1: for equal-length y, y_pred and every cutoff configuration,
\* RMSE.eval_per_query(y, y_pred) is the non-negative square root of what an MSE
\* built with the same cutoff returns from eval_per_query(y, y_pred)
C1_RootOfMSE ==
    \A t \in Threads :
        (th[t].kind = "epq" /\ Len(th[t].y) = Len(th[t].yp)) =>
            LET base == MSE_eval_per_query(MSE_new(self.cutoff).val, th[t].y, th[t].yp)
            IN  /\ th[t].pc = "PerQueryDone"
                /\ base.err = ""
                /\ IsSqrtOf(th[t].result[1], base.val)

\* a per-query call with a cutoff whose root is neither 0 nor 1
C1_Witness ==
    \E t \in Threads :
        /\ th[t].pc = "PerQueryDone"
        /\ self.cutoff # None
        /\ ~th[t].result[1].nan
        /\ th[t].result[1].v \notin {0, Scale}

\* C2: RMSE.eval returns the arithmetic mean of the defined per-query RMSE values,
\* one value per query group; NaN scores (a group with no documents) are dropped,
\* and the aggregate is NaN when every per-query score is NaN
C2_MeanOfDefined ==
    \A t \in Threads :
        (th[t].kind = "eval" /\ th[t].on = "self" /\ th[t].pc = "Done") =>
            LET c == th[t]
                nq == NumQueries(c.offs)
                vals == [q \in 1..nq |-> RefGroup(self.cutoff, c.y, c.offs, c.yp, q)]
                D == {q \in 1..nq : ~vals[q].nan}
            IN  /\ Len(c.scores) = nq
                /\ \A q \in 1..nq : c.scores[q] = vals[q]
                /\ IF D = {} THEN c.result = <<NaN>>
                   ELSE c.result =
                          <<Num(SumSeq([q \in 1..nq |-> IF q \in D THEN vals[q].v ELSE 0])
                                \div Cardinality(D))>>

\* an evaluation that dropped an undefined score and averaged the defined ones
C2_Witness ==
    \E t \in Threads :
        /\ th[t].kind = "eval" /\ th[t].on = "self" /\ th[t].pc = "Done"
        /\ \E q \in 1..Len(th[t].scores) : th[t].scores[q].nan
        /\ \E q \in 1..Len(th[t].scores) : ~th[t].scores[q].nan /\ th[t].scores[q].v > 0
        /\ ~th[t].result[1].nan

\* the evaluation of the two-query example, without cutoff, has finished
ScenarioABDone(t, on) ==
    /\ th[t].kind = "eval" /\ th[t].on = on /\ th[t].pc = "Done"
    /\ self.cutoff = None
    /\ <<[y |-> th[t].y, offs |-> th[t].offs], th[t].yp>> = ScenarioAB

\* C3 as stated: on the two-query example eval returns MSE = 0.5 and
\* RMSE = sqrt(0.5)
C3_Original ==
    \A t \in Threads :
        /\ ScenarioABDone(t, "mse") => th[t].result = <<Num(Scale \div 2)>>
        /\ ScenarioABDone(t, "self") =>
               th[t].result = <<Num(ISqrt((Scale \div 2) * Scale))>>

\* C3 amended: on the two-query example eval returns MSE = 0.5 and RMSE = 0.5, the
\* mean of the per-query roots 0 and 1
C3_Amended ==
    \A t \in Threads :
        /\ ScenarioABDone(t, "mse") => th[t].result = <<Num(Scale \div 2)>>
        /\ ScenarioABDone(t, "self") =>
               /\ th[t].scores = <<Num(0), Num(Scale)>>
               /\ th[t].result = <<Num(Scale \div 2)>>

C3_Witness == \E t \in Threads : ScenarioABDone(t, "self")

\* reading a decimal numeral back
IsNumeral(s) == Len(s) >= 1 /\ \A j \in 1..Len(s) : \E d \in 0..9 : DigitChars[d + 1] = s[j]

RECURSIVE ParseDecimal(_)
ParseDecimal(s) ==
    IF s = <<>> THEN 0
    ELSE ParseDecimal(SubSeq(s, 1, Len(s) - 1)) * 10
         + (CHOOSE d \in 0..9 : DigitChars[d + 1] = s[Len(s)])

LabelMatches(label, name, cutoff) ==
    IF cutoff = None THEN label = name
    ELSE LET rest == SubSeq(label, Len(name) + 2, Len(label))
         IN  /\ Len(label) >= Len(name) + 2
             /\ SubSeq(label, 1, Len(name)) = name
             /\ label[Len(name) + 1] = "@"
             /\ IsNumeral(rest)
             /\ (Len(rest) > 1 => rest[1] # "0")
             /\ ParseDecimal(rest) = cutoff[1]

\* C4: the display label is the name when no cutoff is configured and
\* "<name>@<cutoff>" when one is, for every name and cutoff; computing it changes
\* neither the name nor the cutoff
C4_Label ==
    /\ [](\A t \in Threads :
            th[t].pc = "StrDone" => LabelMatches(th[t].label, self.name, self.cutoff))
    /\ [][\A t \in Threads :
            (th[t].pc = "Idle" /\ th'[t].pc = "StrDone") =>
                (self'.name = self.name /\ self'.cutoff = self.cutoff)]_vars

\* a label with a cutoff, of a name that itself holds an "@"
C4_Witness ==
    \E t \in Threads :
        /\ th[t].pc = "StrDone"
        /\ self.cutoff # None
        /\ \E j \in 1..Len(self.name) : self.name[j] = "@"
        /\ Len(th[t].label) = Len(self.name) + 2

\* C5: constructing an RMSE with a cutoff <= 0 fails with InvalidConfiguration
\* during construction; no constructed instance has a cutoff <= 0 and no call is
\* made with one
C5_InvalidCutoff ==
    /\ Ready => (ValidCutoff(self.cutoff) /\ self.mse.cutoff = self.cutoff)
    /\ (args.cls = RMSE /\ ipc # "none" /\ ~ValidCutoff(args.cutoff)) =>
           /\ ipc \in {"super", "cutoff", "mse", "failed"}
           /\ ipc = "failed" => ierr = "InvalidConfiguration"
    /\ \A t \in Threads : th[t].pc # "Idle" => (Ready /\ ValidCutoff(self.cutoff))

\* RMSE(cutoff=0) has failed
C5_Witness ==
    /\ args.cls = RMSE /\ args.cutoff = Some(0)
    /\ ipc = "failed" /\ ierr = "InvalidConfiguration"

\* C6: with cutoff k, eval_per_query on n documents is computed over min(k, n)
\* documents none of which is predicted lower than a document left out; with
\* k >= n the result is the result without cutoff
C6_TopK ==
    \A t \in Threads :
        (th[t].kind = "epq" /\ th[t].pc = "PerQueryDone" /\ self.cutoff # None) =>
            LET y == th[t].y
                yp == th[t].yp
                n == Len(y)
                k == self.cutoff[1]
            IN  /\ \E S \in SUBSET (1..n) :
                      /\ Cardinality(S) = Min(k, n)
                      /\ \A a \in S, b \in (1..n) \ S : yp[a] >= yp[b]
                      /\ th[t].result = <<RootOfMean(y, yp, S)>>
                /\ k >= n => th[t].result = <<RootOfMean(y, yp, 1..n)>>

\* a truncated query whose value differs from that of its first k documents
C6_Witness ==
    \E t \in Threads :
        /\ th[t].kind = "epq" /\ th[t].pc = "PerQueryDone" /\ self.cutoff # None
        /\ self.cutoff[1] < Len(th[t].y)
        /\ th[t].result # <<RootOfMean(th[t].y, th[t].yp, 1..self.cutoff[1])>>

\* C7: a shape mismatch makes the whole call fail with ShapeMismatch: no score and
\* no aggregate is returned, nothing is truncated or padded
C7_ShapeMismatch ==
    \A t \in Threads :
        /\ (th[t].kind = "epq" /\ Len(th[t].y) # Len(th[t].yp)) =>
               /\ th[t].pc = "Failed"
               /\ th[t].err = "ShapeMismatch"
               /\ th[t].result = <<>>
        /\ (th[t].kind = "eval" /\ Len(th[t].y) # Len(th[t].yp)) =>
               /\ th[t].pc \in {"NotStarted", "Failed"}
               /\ th[t].pc = "Failed" => th[t].err = "ShapeMismatch"
               /\ th[t].scores = <<>>
               /\ th[t].result = <<>>

\* eval_per_query has failed on a y_pred longer than y
C7_Witness ==
    \E t \in Threads :
        /\ th[t].kind = "epq" /\ th[t].pc = "Failed" /\ th[t].err = "ShapeMismatch"
        /\ Len(th[t].yp) > Len(th[t].y) /\ Len(th[t].y) >= 1

\* what a finished call of thread t shows, against the same call run alone
AsAlone(t) ==
    LET c == th[t]
    IN  /\ (c.kind = "eval" /\ c.pc \in {"Done", "Failed"}) =>
               LET ref == RefEval(self.cutoff, c.y, c.offs, c.yp)
               IN  /\ c.err = ref.err
                   /\ c.result = IF ref.err = "" THEN <<ref.val>> ELSE <<>>
        /\ (c.kind = "epq" /\ c.pc \in {"PerQueryDone", "Failed"}) =>
               LET m == MSE_eval_per_query([cutoff |-> self.cutoff], c.y, c.yp)
               IN  /\ c.err = m.err
                   /\ c.result = IF m.err # "" THEN <<>>
                                 ELSE IF m.val.nan THEN <<NaN>>
                                 ELSE <<Num(ISqrt(m.val.v * Scale))>>

\* C8: whatever the interleaving of the calls of several threads on one RMSE
\* instance, every call returns what it returns alone, and no call changes the
\* instance (name, cutoff, inner metric), the dataset or y_pred
C8_Concurrent ==
    /\ [](\A t \in Threads : AsAlone(t))
    /\ [][/\ Ready => self' = self
          /\ \A t \in Threads :
                (th[t].pc # "Idle" /\ th'[t].pc # "Idle") =>
                    /\ th'[t].y = th[t].y
                    /\ th'[t].offs = th[t].offs
                    /\ th'[t].yp = th[t].yp]_vars

\* one thread has finished an evaluation with a cutoff while another is half-way
\* through a different one
C8_Witness ==
    /\ Ready
    /\ self.cutoff # None
    /\ th[1].pc = "Done"
    /\ th[2].pc = "IteratingQueries" /\ th[2].visited # <<>>
    /\ th[2].i <= NumQueries(th[2].offs)
    /\ th[1].yp # th[2].yp

EvalTransitions ==
    {<<"Idle", "NotStarted">>, <<"NotStarted", "IteratingQueries">>,
     <<"NotStarted", "Failed">>, <<"IteratingQueries", "Reducing">>,
     <<"IteratingQueries", "Failed">>, <<"Reducing", "Done">>,
     <<"Done", "Idle">>, <<"Failed", "Idle">>}

\* C9: an eval call goes NotStarted, IteratingQueries, Reducing, Done in that
\* order; when it enters Reducing eval_per_query has been invoked once for each
\* query group, in dataset order; a call that fails never reaches Reducing or Done
\* and returns no aggregate
C9_Phases ==
    /\ [](\A t \in Threads :
            th[t].kind = "eval" =>
                LET nq == NumQueries(th[t].offs)
                IN  /\ th[t].pc = "IteratingQueries" =>
                           th[t].visited = [q \in 1..(th[t].i - 1) |-> q]
                    /\ th[t].pc \in {"Reducing", "Done"} =>
                           /\ th[t].visited = [q \in 1..nq |-> q]
                           /\ Len(th[t].scores) = nq
                    /\ th[t].pc = "Done" <=> th[t].result # <<>>)
    /\ [][\A t \in Threads :
            (th[t].kind = "eval" \/ th'[t].kind = "eval") =>
                \/ th'[t].pc = th[t].pc
                \/ <<th[t].pc, th'[t].pc>> \in EvalTransitions]_vars

\* an evaluation aborted on its second group, after the first one was scored
C9_Witness ==
    \E t \in Threads :
        /\ th[t].kind = "eval" /\ th[t].on = "self"
        /\ th[t].pc = "Failed" /\ th[t].err = "CorruptBoundaries"
        /\ Len(th[t].scores) = 1 /\ th[t].result = <<>>

\* C10: construction terminates for RMSE and for every class derived from it that
\* overrides neither __init__ nor eval: the lookup of line 26 reaches
\* Metric.__init__ and RMSE.__init__ is never entered a second time
C10_NoReentry == depth <= 1 /\ ierr # "RecursionError"

====
